---------------------------- MODULE Spec2Model ----------------------------
(***************************************************************************)
(* The scan session controller of the QR code reader: the useQRScanner     *)
(* hook (stop-on-success lineage) that owns the Html5Qrcode engine.        *)
(*                                                                         *)
(* JavaScript runs each callback to completion, so one action is one       *)
(* synchronous segment of a hook function: from its call (or from the      *)
(* settling of the promise it awaits) to its next await or its return.     *)
(* A hook function is called with the state of the latest render, React    *)
(* having committed the updates of the segment before.                     *)
(*                                                                         *)
(* The engine is the external collaborator {start, stop, isScanning}: a    *)
(* call of engine.start or engine.stop is an entry of `pending` until it   *)
(* settles, and whether it resolves or rejects is an input of the settling *)
(* action (an immediate throw is a rejection).  The hook puts no order on  *)
(* overlapping calls, so any unsettled call may settle next.               *)
(* engine.isScanning becomes true when a start resolves and false when a   *)
(* stop resolves; a rejected call leaves it as it was.  The engine         *)
(* delivers decode callbacks only while it is scanning, which includes the *)
(* time a stop is in flight (a frame already being decoded).               *)
(*                                                                         *)
(* Beside the controller the module holds the permission hook              *)
(* (useCameraPermission) and the part of App and QRScanner that shows the  *)
(* scanner once permission is granted.  Each has its own next-state        *)
(* relation: Spec is the controller alone, SpecPermission the permission   *)
(* hook alone, SpecApp the two composed as App.tsx composes them, and      *)
(* SpecDevices the device hook (useCameraDevices) with the preference it   *)
(* keeps in localStorage.  SpecFrames is the controller with the engine's  *)
(* frame-failure callback, SpecResults the controller with the timestamps  *)
(* of its results, SpecHistory the scan history hook (useScanHistory) and  *)
(* SpecErrors the camera errors that cameraService makes of a rejected     *)
(* getUserMedia call.  SpecConsumers is the scan history as two of its     *)
(* consumers hold it (App and HistoryModal), SpecConfig the controller     *)
(* under QRScanner's camera-switch effect, and SpecPausing the             *)
(* pause-on-success controller of cameraService.                           *)
(***************************************************************************)
EXTENDS Naturals, FiniteSets, Sequences, Bags, TLC

\* Bounds of the model.
MaxCalls == 3     \* startScanner / stopScanner / switchCamera calls in a run
MaxDecodes == 2   \* decode callbacks the engine delivers in a run
MaxTexts == 1     \* distinct decoded texts
MaxRequests == 3  \* requestPermission calls in a run
MaxEvents == 2    \* permission-change events in a run
MaxDevices == 2   \* cameras an enumeration returns
MaxRefreshes == 2 \* enumerations in a run, the one at mount included
MaxSelections == 1 \* selectDevice / toggleCamera / setFacingMode calls in a run
MaxScans == 2     \* addScan calls in a run
MaxRemovals == 1  \* removeScan calls in a run
MaxFailures == 3  \* getUserMedia rejections in a run

VARIABLES
  status,        \* useState<QRScannerStatus>
  lastResult,    \* useState<QRScanResult | null>
  error,         \* useState<QRScannerError | null>: its type, or "null"
  scannerRef,    \* useRef<Html5Qrcode | null>
  isMountedRef,  \* useRef(true)
  isScanning,    \* scannerRef.current.isScanning (the engine holds a stream)
  pending,       \* bag of engine.start / engine.stop promises not yet settled
  onScanCount,   \* text -> onScan invocations since the last successful start
  last,          \* the segment that ran last and the value it returned
  stopWhileInit, \* stopScanner was called during a start, and no start or switch since
  calls,         \* startScanner / stopScanner / switchCamera calls made so far
  decodes,       \* decode callbacks delivered so far
  permission,    \* the useCameraPermission instance of App
  app,           \* App and QRScanner: what is shown, the auto-start timer
  cameras,       \* the useCameraDevices instance of App
  cameraPreference, \* localStorage under 'qr-scanner-camera-preference'
  mediaDevices,  \* the facing mode each camera's label tells, by device id
  stamps,        \* the timestamp field of the results decoded and surfaced
  history,       \* a useScanHistory instance and localStorage under 'qr-scanner-history'
  cameraError,   \* what getUserMedia last threw and the CameraError made of it
  historyModal,  \* the useScanHistory instance of HistoryModal
  qrScanner,     \* QRScanner: its config prop, previousConfigRef, the engine's camera
  pause          \* the pause flag of the pause-on-success controller

scannerVars == <<status, lastResult, error, scannerRef, isMountedRef, isScanning,
                 pending, onScanCount, last, stopWhileInit, calls, decodes>>

\* The state of the other hooks and of what is outside the program.
notSession == <<permission, app, cameras, cameraPreference, mediaDevices,
                history, cameraError, historyModal, qrScanner, pause>>

\* Everything that is not state of the controller.
notScanner == <<notSession, stamps>>

\* Everything that is not state of the permission hook.
notPermission == <<scannerVars, app, cameras, cameraPreference, mediaDevices,
                   stamps, history, cameraError, historyModal, qrScanner, pause>>

deviceVars == <<cameras, cameraPreference, mediaDevices>>

\* Everything that is not state of the device hook.
notDevices == <<scannerVars, permission, app, stamps, history,
                cameraError, historyModal, qrScanner, pause>>

vars == <<scannerVars, notScanner>>

Statuses == {"idle", "initializing", "active", "stopped", "error"}
FacingModes == {"environment", "user"}
Texts == 1..MaxTexts
NoResult == 0

\* One unsettled engine promise: which engine method (k), which hook function
\* awaits it (by), and what that function holds in its closure: the camera
\* options, the decoded result, and whether the session accepted results when
\* the decode callback arrived.
EngineCall(k, by, cam, text, accepting) ==
  [k |-> k, by |-> by, cam |-> cam, text |-> text, accepting |-> accepting]

StartCall(by, cam) == EngineCall("start", by, cam, NoResult, TRUE)
StopCall(by, cam, text, accepting) == EngineCall("stop", by, cam, text, accepting)

Add(r) == pending (+) SetToBag({r})
Remove(r) == pending (-) SetToBag({r})
Pending(k) == {r \in BagToSet(pending) : r.k = k}
PendingBy(by) == {r \in BagToSet(pending) : r.by = by}
NumPending(S) == BagCardinality([r \in S |-> pending[r]])

PermissionStates == {"prompt", "granted", "denied"}
NoStream == 0
Absent == "absent"

\* CameraPermissionStatus: the state and the optional error.
PermissionStatus(state, err) == [state |-> state, error |-> err]

\* useState<CameraPermissionStatus | null>(null): no status yet.
NoStatus == PermissionStatus("null", Absent)

\* useCameraPermission after mount: the four useState values, the ref, and
\* refreshStatus() already called by the mount effect.  Beside them:
\* closure, the isRequesting of the render whose requestPermission callback
\* the caller holds; held, the stream of that render, which stopStream and
\* the effect on [stream] see; requests, the requestCameraPermission promises not yet
\* settled; query, whether getCameraPermissionStatus is unsettled; live, the
\* streams of the hook whose tracks are not stopped; made, the streams
\* getUserMedia has returned; calls, the requestPermission calls; gum, the
\* getUserMedia invocations (the API is present and the context secure, so
\* requestCameraPermission reaches getUserMedia); events, the
\* permission-change events delivered; last, the segment that ran last.
InitialPermission ==
  [status |-> NoStatus, stream |-> NoStream, held |-> NoStream,
   isRequesting |-> FALSE, error |-> "null", isMountedRef |-> TRUE,
   closure |-> FALSE, requests |-> 0, query |-> TRUE, live |-> {},
   made |-> 0, calls |-> 0, gum |-> 0, events |-> 0,
   last |-> [op |-> "mount", arg |-> "none", ret |-> "void"]]

\* App after mount: status is null, so CameraPermission is shown and
\* QRScanner is not mounted.  timer: the auto-start timeout of QRScanner is
\* pending; hasStartedRef: the ref of QRScanner; autoStarts: the startScanner
\* calls the timeout has made.
InitialApp ==
  [scanner |-> "hidden", timer |-> FALSE, hasStartedRef |-> FALSE,
   autoStarts |-> 0]

\* A device as enumerateCameraDevices returns it (the label is left out).
\* guessFacingMode gives "undefined" when the label says neither.
CameraDevice(deviceId, facingMode) ==
  [deviceId |-> deviceId, facingMode |-> facingMode]

\* Device ids of the cameras that can be present, and the id of a camera of
\* an earlier visit that is not present any more.
AllIds == <<"a", "b", "d">>
DeviceIds == {AllIds[i] : i \in 1..MaxDevices}
StaleId == "c"

\* selectedDevice null.
NoDevice == CameraDevice("null", "undefined")

\* CameraPreference.
CameraPreference(deviceId, facingMode) ==
  [deviceId |-> deviceId, facingMode |-> facingMode]

\* Nothing is stored under the key.
NoPreference == CameraPreference("null", "null")

\* useCameraDevices after mount: the four useState values, the ref, and
\* refreshDevices() already called by the mount effect.  Beside them:
\* refreshes, the enumerateCameraDevices promises not yet settled; started,
\* the refreshDevices calls; selections, the selectDevice / toggleCamera /
\* setFacingMode calls; last, the function that ran last and whether it
\* changed the selection.
InitialCameras ==
  [devices |-> <<>>, selectedDevice |-> NoDevice, facingMode |-> "environment",
   isLoading |-> TRUE, isMountedRef |-> TRUE,
   refreshes |-> 1, started |-> 1, selections |-> 0,
   last |-> [op |-> "mount", changed |-> FALSE]]

\* No result has been decoded: inflight, the results that stopAndNotify
\* closures hold and have not surfaced yet; surfaced, the timestamps of the
\* results surfaced (stored and handed to onScan) in the current session.
NoStamps == [inflight |-> {}, surfaced |-> <<>>]

\* types/history.ts: the capacity of the history.
MAX_HISTORY_ENTRIES == 20

\* The history hook at its first render, over what localStorage holds:
\* useState([]) and useState(true).  An entry is its id; generateId is
\* modelled as a counter, so a later entry has a greater id.
InitialHistory(stored) ==
  [entries |-> <<>>, isLoading |-> TRUE, stored |-> stored,
   generated |-> Len(stored), scans |-> 0, removals |-> 0,
   last |-> [op |-> "mount", dropped |-> 0]]

\* The history hook of HistoryModal at its first render; removed, the ids
\* of the entries it has removed or cleared since.
InitialModal == [entries |-> <<>>, isLoading |-> TRUE, removed |-> {}]

\* QRScanner at its first render, its effects run: config, the camera part
\* of the config prop (the facing mode, as App hands it); previousConfigRef;
\* engine, the camera constraint of the engine's last start that resolved.
InitialScanner ==
  [config |-> "environment", previousConfigRef |-> "environment",
   engine |-> "none"]

\* The pause-on-success controller at mount: isPausedRef = useRef(false).
\* accepted: a decode has been accepted, and since then resumeScanner has
\* not resumed and no start of the engine has resolved.  dropped: the last
\* decode callback returned at the guard.
NotPaused == [isPausedRef |-> FALSE, accepted |-> FALSE, dropped |-> FALSE]

\* getUserMedia has not failed yet.
NoCameraError == [thrown |-> "none", error |-> "none", failures |-> 0]

\* Every hook right after App has mounted.
Mounted ==
  /\ stamps = NoStamps
  /\ cameraError = NoCameraError
  /\ historyModal = InitialModal
  /\ qrScanner = InitialScanner
  /\ pause = NotPaused
  /\ permission = InitialPermission
  /\ app = InitialApp
  /\ cameras = InitialCameras
  /\ status = "idle"
  /\ lastResult = NoResult
  /\ error = "null"
  /\ scannerRef = "null"
  /\ isMountedRef = TRUE
  /\ isScanning = FALSE
  /\ pending = EmptyBag
  /\ onScanCount = [t \in Texts |-> 0]
  /\ last = [op |-> "mount", ret |-> "void", caught |-> FALSE]
  /\ stopWhileInit = FALSE
  /\ calls = 0
  /\ decodes = 0

\* The first visit: nothing is stored yet.  No label tells a facing mode.
Init ==
  /\ Mounted
  /\ cameraPreference = NoPreference
  /\ mediaDevices = [id \in DeviceIds |-> "undefined"]
  /\ history = InitialHistory(<<>>)


\* A failure that no catch block takes: the promise of the async function
\* rejects.
Unhandled(ret, caught) == IF caught THEN "rejected" ELSE ret

\* What the promise of a hook function settles to (or "pending" at an
\* await).  Every engine call of startScanner, stopScanner and switchCamera
\* is inside a try block, so after a caught failure the promise resolves
\* with the value the catch block returns.
Returned(ret, caught) == ret

Ran(op, ret, caught) ==
  last' = [op |-> op, ret |-> Returned(ret, caught), caught |-> caught]

\* A state update that is lost: the value stays what it was.
KeepState(var, new) == var

\* A state update of the hook (setStatus, setError, setLastResult).  React
\* discards the update when the component is unmounted.
SetState(var, new) == IF isMountedRef THEN new ELSE var

\* The session accepts results: it is active and no stop or camera switch is
\* in progress.
AcceptsResults ==
  /\ status = "active"
  /\ Pending("stop") = {}
  /\ PendingBy("switchCamera") = {}

NewSession == [t \in Texts |-> 0]

\* A failed start that records no error.
StartFailedUnrecorded == "null"

\* The scannerError that the catch block of a start builds.
StartFailed == "SCANNER_START_FAILED"

StartsInFlight == NumPending(Pending("start"))

----------------------------------------------------------------------------
\* startScanner, from the call to `await scanner.start(...)` or to an early
\* return.  ctorOk: whether `new Html5Qrcode(elementId, ...)` returns.
StartRejectedOnlyActive == status = "active"

\* A guard that lets startScanner pass from idle only.
StartRejectedUnlessIdle == status # "idle"

\* The guard of startScanner.
StartRejected == status = "active" \/ status = "initializing"

startScanner(cam, ctorOk) ==
  /\ isMountedRef
  /\ calls < MaxCalls
  /\ calls' = calls + 1
  /\ IF StartRejected
     THEN /\ Ran("startScanner", "false", FALSE)
          /\ UNCHANGED <<status, error, scannerRef, pending, stopWhileInit>>
     ELSE IF scannerRef = "null" /\ ~ctorOk
     THEN /\ status' = "error"
          /\ error' = StartFailed
          /\ Ran("startScanner", "false", TRUE)
          /\ stopWhileInit' = FALSE
          /\ UNCHANGED <<scannerRef, pending>>
     ELSE /\ status' = "initializing"
          /\ error' = "null"
          /\ scannerRef' = "Html5Qrcode"
          /\ pending' = Add(StartCall("startScanner", cam))
          /\ stopWhileInit' = FALSE
          /\ Ran("startScanner", "pending", FALSE)
  /\ UNCHANGED <<lastResult, isMountedRef, isScanning, onScanCount, decodes>>

\* The rest of a start, after `await scanner.start(...)` settles: used by
\* startScanner and by switchCamera, whose code after the await is the same.
StartSettled(r, ok) ==
  /\ pending' = Remove(r)
  /\ IF ok
     THEN /\ isScanning' = TRUE
          /\ status' = SetState(status, "active")
          /\ onScanCount' = NewSession
          /\ Ran(r.by, "true", FALSE)
          /\ UNCHANGED error
     ELSE /\ error' = SetState(error, StartFailed)
          /\ status' = SetState(status, "error")
          /\ Ran(r.by, "false", TRUE)
          /\ UNCHANGED <<isScanning, onScanCount>>
  /\ UNCHANGED <<lastResult, scannerRef, isMountedRef, stopWhileInit, calls, decodes>>

startScannerSettled(ok) ==
  \E r \in Pending("start") : r.by = "startScanner" /\ StartSettled(r, ok)

----------------------------------------------------------------------------
\* An engine that is taken to be scanning whatever it reports.
AssumedScanning == TRUE

\* The check `scanner.isScanning` of stopScanner.
ScannerIsScanning == isScanning

\* stopScanner, from the call to `await scanner.stop()` or to its return.
stopScanner ==
  /\ isMountedRef
  /\ calls < MaxCalls
  /\ calls' = calls + 1
  /\ IF scannerRef = "null"
     THEN /\ Ran("stopScanner", "void", FALSE)
          /\ UNCHANGED <<status, pending, stopWhileInit>>
     ELSE /\ stopWhileInit' =
               IF status = "initializing" /\ Pending("start") # {}
               THEN TRUE ELSE stopWhileInit
          /\ IF ScannerIsScanning
             THEN /\ pending' = Add(StopCall("stopScanner", "none", NoResult, TRUE))
                  /\ Ran("stopScanner", "pending", FALSE)
                  /\ UNCHANGED status
             ELSE /\ status' = "stopped"
                  /\ Ran("stopScanner", "void", FALSE)
                  /\ UNCHANGED pending
  /\ UNCHANGED <<lastResult, error, scannerRef, isMountedRef, isScanning,
                 onScanCount, decodes>>

\* stopScanner after `await scanner.stop()` settles.
stopScannerSettled(ok) ==
  \E r \in Pending("stop") :
    /\ r.by = "stopScanner"
    /\ pending' = Remove(r)
    /\ IF ok
       THEN /\ isScanning' = FALSE
            /\ status' = SetState(status, "stopped")
            /\ Ran("stopScanner", "void", FALSE)
            /\ UNCHANGED error
       ELSE /\ error' = SetState(error, "SCANNER_STOP_FAILED")
            /\ Ran("stopScanner", "void", TRUE)
            /\ UNCHANGED <<status, isScanning>>
    /\ UNCHANGED <<lastResult, scannerRef, isMountedRef, onScanCount,
                   stopWhileInit, calls, decodes>>

----------------------------------------------------------------------------
\* The second half of switchCamera, from setStatus('initializing') to
\* `await scanner.start(...)`.  rest: the unsettled promises left.
Restart(options, ctorOk, rest) ==
  IF scannerRef = "null" /\ ~ctorOk
  THEN /\ status' = SetState(status, "error")
       /\ error' = SetState(error, StartFailed)
       /\ pending' = rest
       /\ Ran("switchCamera", "false", TRUE)
       /\ UNCHANGED scannerRef
  ELSE /\ status' = SetState(status, "initializing")
       /\ error' = SetState(error, "null")
       /\ scannerRef' = "Html5Qrcode"
       /\ pending' = rest (+) SetToBag({StartCall("switchCamera", options)})
       /\ Ran("switchCamera", "pending", FALSE)

\* A check that only asks whether an engine instance exists.
EngineExists == scannerRef # "null"

\* The check `scannerRef.current?.isScanning` of switchCamera.
EngineIsScanning == scannerRef # "null" /\ isScanning

\* switchCamera, from the call to its first await.
switchCamera(options, ctorOk) ==
  /\ isMountedRef
  /\ calls < MaxCalls
  /\ calls' = calls + 1
  /\ stopWhileInit' = FALSE
  /\ IF EngineIsScanning
     THEN /\ pending' = Add(StopCall("switchCamera", options, NoResult, TRUE))
          /\ Ran("switchCamera", "pending", FALSE)
          /\ UNCHANGED <<status, error, scannerRef>>
     ELSE Restart(options, ctorOk, pending)
  /\ UNCHANGED <<lastResult, isMountedRef, isScanning, onScanCount, decodes>>

\* switchCamera after `await scannerRef.current.stop()` settles: a stop error
\* is ignored, and the new start follows in both cases.
switchCameraStopped(ok) ==
  \E r \in Pending("stop") :
    /\ r.by = "switchCamera"
    /\ isScanning' = IF ok THEN FALSE ELSE isScanning
    /\ Restart(r.cam, TRUE, Remove(r))
    /\ UNCHANGED <<lastResult, isMountedRef, onScanCount, stopWhileInit,
                   calls, decodes>>

switchCameraSettled(ok) ==
  \E r \in Pending("start") : r.by = "switchCamera" /\ StartSettled(r, ok)

----------------------------------------------------------------------------
\* The end of stopAndNotify: the result is stored and onScan is called.
Notify(text) ==
  /\ lastResult' = SetState(lastResult, text)
  /\ status' = SetState(status, "idle")
  /\ onScanCount' = [onScanCount EXCEPT ![text] = @ + 1]

\* handleDecode: the engine's success callback, up to the await in
\* stopAndNotify.  The engine calls it only while it is scanning.
handleDecode(text) ==
  /\ scannerRef # "null"
  /\ isScanning
  /\ decodes < MaxDecodes
  /\ decodes' = decodes + 1
  /\ IF isScanning
     THEN /\ pending' = Add(StopCall("handleDecode", "none", text, AcceptsResults))
          /\ UNCHANGED <<lastResult, status, onScanCount>>
     ELSE /\ Notify(text)
          /\ UNCHANGED pending
  /\ Ran("handleDecode", "void", FALSE)
  /\ UNCHANGED <<error, scannerRef, isMountedRef, isScanning, stopWhileInit, calls>>

\* stopAndNotify after `await scannerRef.current.stop()` settles: a stop
\* error is ignored.
stopAndNotify(ok) ==
  \E r \in Pending("stop") :
    /\ r.by = "handleDecode"
    /\ pending' = Remove(r)
    /\ isScanning' = IF ok THEN FALSE ELSE isScanning
    /\ Notify(r.text)
    /\ Ran("stopAndNotify", "void", ~ok)
    /\ UNCHANGED <<error, scannerRef, isMountedRef, stopWhileInit, calls, decodes>>

----------------------------------------------------------------------------
\* A clearResult that resets the whole session, not the result alone.
clearSession ==
  /\ isMountedRef
  /\ lastResult' = NoResult
  /\ status' = "idle"
  /\ Ran("clearResult", "void", FALSE)
  /\ UNCHANGED <<error, scannerRef, isMountedRef, isScanning, pending,
                 onScanCount, stopWhileInit, calls, decodes>>

\* clearResult.
clearResult ==
  /\ isMountedRef
  /\ lastResult' = NoResult
  /\ Ran("clearResult", "void", FALSE)
  /\ UNCHANGED <<status, error, scannerRef, isMountedRef, isScanning, pending,
                 onScanCount, stopWhileInit, calls, decodes>>

\* The unmount cleanup of the hook's effect.
cleanup ==
  /\ isMountedRef
  /\ isMountedRef' = FALSE
  /\ pending' = IF scannerRef # "null" /\ isScanning
                THEN Add(StopCall("cleanup", "none", NoResult, TRUE))
                ELSE pending
  /\ Ran("cleanup", "void", FALSE)
  /\ UNCHANGED <<status, lastResult, error, scannerRef, isScanning, onScanCount,
                 stopWhileInit, calls, decodes>>

\* The cleanup's `scannerRef.current.stop()` settles; `.catch` ignores an error.
cleanupSettled(ok) ==
  \E r \in Pending("stop") :
    /\ r.by = "cleanup"
    /\ pending' = Remove(r)
    /\ isScanning' = IF ok THEN FALSE ELSE isScanning
    /\ Ran("cleanup.stop", "void", ~ok)
    /\ UNCHANGED <<status, lastResult, error, scannerRef, isMountedRef,
                   onScanCount, stopWhileInit, calls, decodes>>

----------------------------------------------------------------------------
Next ==
  \/ \E cam \in FacingModes, ctorOk \in BOOLEAN : startScanner(cam, ctorOk)
       /\ UNCHANGED notScanner
  \/ \E ok \in BOOLEAN : startScannerSettled(ok)
       /\ UNCHANGED notScanner
  \/ stopScanner
       /\ UNCHANGED notScanner
  \/ \E ok \in BOOLEAN : stopScannerSettled(ok)
       /\ UNCHANGED notScanner
  \/ \E options \in FacingModes, ctorOk \in BOOLEAN : switchCamera(options, ctorOk)
       /\ UNCHANGED notScanner
  \/ \E ok \in BOOLEAN : switchCameraStopped(ok)
       /\ UNCHANGED notScanner
  \/ \E ok \in BOOLEAN : switchCameraSettled(ok)
       /\ UNCHANGED notScanner
  \/ \E text \in Texts : handleDecode(text)
       /\ UNCHANGED notScanner
  \/ \E ok \in BOOLEAN : stopAndNotify(ok)
       /\ UNCHANGED notScanner
  \/ clearResult
       /\ UNCHANGED notScanner
  \/ cleanup
       /\ UNCHANGED notScanner
  \/ \E ok \in BOOLEAN : cleanupSettled(ok)
       /\ UNCHANGED notScanner

Spec == Init /\ [][Next]_vars

TypeOK ==
  /\ status \in Statuses
  /\ lastResult \in Texts \cup {NoResult}
  /\ error \in {"null", "SCANNER_START_FAILED", "SCANNER_STOP_FAILED"}
  /\ scannerRef \in {"null", "Html5Qrcode"}
  /\ isMountedRef \in BOOLEAN
  /\ isScanning \in BOOLEAN
  /\ IsABag(pending)
  /\ calls \in 0..MaxCalls
  /\ decodes \in 0..MaxDecodes


----------------------------------------------------------------------------
\* The permission hook, useCameraPermission.

PermissionRan(op, arg, ret) == [op |-> op, arg |-> arg, ret |-> ret]

\* setStatus(prev => prev ? {...prev, state} : {state, ...}): the spread
\* keeps every other field of prev, its error among them.
WithState(prev, state) ==
  IF prev = NoStatus THEN PermissionStatus(state, Absent)
  ELSE [prev EXCEPT !.state = state]

\* What getCameraPermissionStatus resolves to: the queried state, or denied
\* with an error when the API is missing or the context is not secure.
QueryResults ==
  {PermissionStatus(st, Absent) : st \in PermissionStates}
    \cup {PermissionStatus("denied", e) : e \in {"NOT_SUPPORTED", "NOT_SECURE_CONTEXT"}}

\* What requestCameraPermission resolves to: a stream, or an error.
RequestResults == {"stream", "PERMISSION_DENIED", "DEVICE_IN_USE"}

\* refreshStatus after `await getCameraPermissionStatus()` settles.
refreshStatusSettled(currentStatus) ==
  /\ permission.query
  /\ permission' =
       IF permission.isMountedRef
       THEN [permission EXCEPT
               !.query = FALSE,
               !.status = currentStatus,
               !.error = IF currentStatus.error # Absent
                         THEN currentStatus.error ELSE @,
               !.last = PermissionRan("refreshStatus", "none", "void")]
       ELSE [permission EXCEPT
               !.query = FALSE,
               !.last = PermissionRan("refreshStatus", "none", "void")]

\* The hook has state that no render has shown yet.
Unrendered ==
  \/ permission.closure # permission.isRequesting
  \/ permission.held # permission.stream

\* The hook after a render and its effects: the callbacks see the state of
\* this render, and when stream has changed the cleanup of the effect on
\* [stream] stops the stream of the render before.
Rendered ==
  [permission EXCEPT
     !.closure = permission.isRequesting,
     !.held = permission.stream,
     !.live = @ \ ({permission.held} \ {permission.stream})]

\* A render of App.
render ==
  /\ permission.isMountedRef
  /\ Unrendered
  /\ permission' = Rendered

\* requestPermission, from the call to `await requestCameraPermission(config)`
\* or to the early return.  The guard reads the isRequesting of the render
\* the callback was created in.
requestPermission ==
  /\ permission.isMountedRef
  /\ permission.calls < MaxRequests
  /\ permission' =
       IF permission.closure
       THEN [permission EXCEPT
               !.calls = @ + 1,
               !.last = PermissionRan("requestPermission", "none", "false")]
       ELSE [permission EXCEPT
               !.calls = @ + 1,
               !.isRequesting = TRUE,
               !.error = "null",
               !.requests = @ + 1,
               !.gum = @ + 1,
               !.last = PermissionRan("requestPermission", "none", "pending")]

\* The hook's state after setStream(id) with a stream that getUserMedia has
\* just returned.
SetStream(id) ==
  [stream |-> id, live |-> permission.live \cup ({id} \ {NoStream})]

\* requestPermission after `await requestCameraPermission(config)` settles.
\* A stream that getUserMedia returns is live from then on.
requestPermissionSettled(result) ==
  /\ permission.requests > 0
  /\ LET id == permission.made + 1
         made == IF result = "stream" THEN id ELSE permission.made
     IN permission' =
          IF ~permission.isMountedRef
          THEN [permission EXCEPT
                  !.requests = @ - 1,
                  !.made = made,
                  !.last = PermissionRan("requestPermission", result, "false")]
          ELSE IF result = "stream"
          THEN [permission EXCEPT
                  !.requests = @ - 1,
                  !.made = made,
                  !.stream = SetStream(id).stream,
                  !.live = SetStream(id).live,
                  !.status = WithState(@, "granted"),
                  !.isRequesting = FALSE,
                  !.last = PermissionRan("requestPermission", result, "true")]
          ELSE [permission EXCEPT
                  !.requests = @ - 1,
                  !.error = result,
                  !.status = IF result = "PERMISSION_DENIED"
                             THEN PermissionStatus("denied", result) ELSE @,
                  !.isRequesting = FALSE,
                  !.last = PermissionRan("requestPermission", result, "false")]

\* The listener clears the recorded error whatever state it is given.
ErrorCleared(state) == "null"

\* The recorded error after the permission-change listener has run: the
\* listener calls setStatus only.
ErrorAfterChange(state) == permission.error

\* The listener the mount effect hands to onPermissionChange.  The cleanup
\* of the effect removes it, so it runs only while mounted.
onPermissionChange(state) ==
  /\ permission.isMountedRef
  /\ permission.events < MaxEvents
  /\ permission' =
       [permission EXCEPT
          !.events = @ + 1,
          !.status = WithState(@, state),
          !.error = ErrorAfterChange(state),
          !.last = PermissionRan("onPermissionChange", state, "void")]

\* The guard of stopStream, on the stream of the render it was made in.
HoldsStream(p) == p.held # NoStream

\* The hook p after stopStream: stopMediaStream(stream) and setStream(null),
\* if the render the callback was made in had a stream.
Stopped(p) ==
  IF HoldsStream(p)
  THEN [p EXCEPT !.stream = NoStream,
                 !.live = @ \ {p.held},
                 !.last = PermissionRan("stopStream", "none", "void")]
  ELSE [p EXCEPT !.last = PermissionRan("stopStream", "none", "void")]

stopStream ==
  /\ permission.isMountedRef
  /\ permission' = Stopped(permission)

\* The cleanups of the hook's two effects at unmount: the ref is cleared,
\* the listener removed, and the stream of the last render stopped.
permissionCleanup ==
  /\ permission.isMountedRef
  /\ permission' =
       [permission EXCEPT
          !.isMountedRef = FALSE,
          !.live = @ \ {permission.held},
          !.last = PermissionRan("cleanup", "none", "void")]

NextPermission ==
  \/ \E currentStatus \in QueryResults : refreshStatusSettled(currentStatus)
       /\ UNCHANGED notPermission
  \/ render
       /\ UNCHANGED notPermission
  \/ requestPermission
       /\ UNCHANGED notPermission
  \/ \E result \in RequestResults : requestPermissionSettled(result)
       /\ UNCHANGED notPermission
  \/ \E state \in PermissionStates : onPermissionChange(state)
       /\ UNCHANGED notPermission
  \/ stopStream
       /\ UNCHANGED notPermission
  \/ permissionCleanup
       /\ UNCHANGED notPermission

SpecPermission == Init /\ [][NextPermission]_vars

PermissionTypeOK ==
  /\ permission.status \in {NoStatus} \cup
       {PermissionStatus(st, e) : st \in PermissionStates,
          e \in {Absent, "NOT_SUPPORTED", "NOT_SECURE_CONTEXT", "PERMISSION_DENIED"}}
  /\ permission.stream \in 0..MaxRequests
  /\ permission.held \in 0..MaxRequests
  /\ permission.live \subseteq 1..MaxRequests
  /\ permission.requests \in 0..MaxRequests
  /\ permission.calls \in 0..MaxRequests
  /\ permission.gum \in 0..permission.calls
  /\ permission.events \in 0..MaxEvents

----------------------------------------------------------------------------
\* App: CameraPermission is rendered until permission is granted, QRScanner
\* (with autoStart) after that.  One QRScanner instance is followed: once it
\* is unmounted the run has no scanner any more.

showScanner == permission.status.state = "granted"

\* The effects that run after App has rendered.  Mounting QRScanner runs its
\* auto-start effect, which arms the 100 ms timer; unmounting it clears the
\* timer and runs the cleanup of useQRScanner; App's own effect stops the
\* permission hook's stream while the scanner is shown.
commit ==
  LET mounts == showScanner /\ app.scanner = "hidden"
      unmounts == ~showScanner /\ app.scanner = "shown"
      stops == showScanner /\ permission.stream # NoStream
  IN /\ permission.isMountedRef
     /\ mounts \/ unmounts \/ stops
     /\ app' = IF mounts
               THEN [app EXCEPT !.scanner = "shown",
                                !.timer = ~app.hasStartedRef,
                                !.hasStartedRef = TRUE]
               ELSE IF unmounts
               THEN [app EXCEPT !.scanner = "gone", !.timer = FALSE]
               ELSE app
     /\ permission' = IF stops THEN Stopped(Rendered) ELSE Rendered
     /\ IF unmounts THEN cleanup ELSE UNCHANGED scannerVars
     /\ UNCHANGED <<deviceVars, stamps, history, cameraError, historyModal, qrScanner, pause>>

\* The auto-start timer of QRScanner fires: startScanner() is called.
autoStart(cam, ctorOk) ==
  /\ app.scanner = "shown"
  /\ app.timer
  /\ app' = [app EXCEPT !.timer = FALSE, !.autoStarts = @ + 1]
  /\ startScanner(cam, ctorOk)
  /\ UNCHANGED <<permission, deviceVars, stamps, history, cameraError, historyModal, qrScanner, pause>>

\* The button of CameraPermission, which App renders while the scanner is
\* not shown; while status is null CameraPermission shows no button.
handleRequestPermission ==
  /\ permission.status # NoStatus
  /\ ~showScanner
  /\ requestPermission
  /\ UNCHANGED <<scannerVars, app, deviceVars, stamps, history, cameraError, historyModal, qrScanner, pause>>

\* App renders again.  The callbacks it hands out see the state of this
\* render, and the config prop it hands to QRScanner is a new object: the
\* startScanner of useQRScanner is a new function, so the auto-start effect
\* of QRScanner is cleaned up, which clears a pending timeout, and runs
\* again, which arms none because hasStartedRef is set.
renderApp ==
  /\ permission.isMountedRef
  /\ Unrendered \/ app.timer
  /\ permission' = Rendered
  /\ app' = [app EXCEPT !.timer = FALSE]
  /\ UNCHANGED <<scannerVars, deviceVars, stamps, history, cameraError, historyModal, qrScanner, pause>>

NextApp ==
  \/ \E currentStatus \in QueryResults : refreshStatusSettled(currentStatus)
       /\ UNCHANGED notPermission
  \/ renderApp
  \/ handleRequestPermission
  \/ \E result \in RequestResults : requestPermissionSettled(result)
       /\ UNCHANGED notPermission
  \/ \E state \in PermissionStates : onPermissionChange(state)
       /\ UNCHANGED notPermission
  \/ commit
  \/ \E cam \in FacingModes, ctorOk \in BOOLEAN : autoStart(cam, ctorOk)
  \/ \E ok \in BOOLEAN : startScannerSettled(ok)
       /\ UNCHANGED notScanner
  \/ \E ok \in BOOLEAN : cleanupSettled(ok)
       /\ UNCHANGED notScanner

SpecApp == Init /\ [][NextApp]_vars

----------------------------------------------------------------------------
\* The device hook, useCameraDevices.

\* A facing mode that is not flipped.
SameMode(mode) == mode

Opposite(mode) == IF mode = "user" THEN "environment" ELSE "user"

\* a || b on strings and undefined: the empty string and undefined are falsy.
OrElse(a, b) == IF a \in {"", "undefined"} THEN b ELSE a

\* selectedDevice?.deviceId
IdOf(device) == IF device = NoDevice THEN "undefined" ELSE device.deviceId

\* Array.prototype.find, given the indices of the elements that pass: the
\* first element that passes, or undefined.
Find(devices, hits) ==
  IF hits = {} THEN NoDevice
  ELSE devices[CHOOSE i \in hits : \A j \in hits : i <= j]

findDeviceByFacingMode(devices, facingMode) ==
  Find(devices, {i \in 1..Len(devices) : devices[i].facingMode = facingMode})

findOppositeCamera(devices, currentFacingMode) ==
  findDeviceByFacingMode(devices, Opposite(currentFacingMode))

\* devices.find((d) => d.deviceId === deviceId)
findByDeviceId(devices, deviceId) ==
  Find(devices, {i \in 1..Len(devices) : devices[i].deviceId = deviceId})

getDefaultPreference == CameraPreference("", "environment")

\* getItemWithDefault: the stored value (JSON.parse of what JSON.stringify
\* wrote gives the same two strings back), or the default when the key is
\* missing.
loadCameraPreference ==
  IF cameraPreference = NoPreference THEN getDefaultPreference
  ELSE cameraPreference

\* setItem, with localStorage available and not full: the value is stored.
\* (The hook ignores the StorageResult that would tell otherwise.)
saveCameraPreference(preference) == cameraPreference' = preference

\* A resolution that ignores the stored device id.
ByFacingModeOnly(availableDevices, preference) ==
  LET byFacing == findDeviceByFacingMode(availableDevices, preference.facingMode)
  IN IF byFacing = NoDevice /\ Len(availableDevices) > 0
     THEN availableDevices[1] ELSE byFacing

\* deviceToSelect of refreshDevices.
DeviceToSelect(availableDevices, preference) ==
  LET byId == IF preference.deviceId # ""
              THEN findByDeviceId(availableDevices, preference.deviceId)
              ELSE NoDevice
      byFacing == IF byId = NoDevice
                  THEN findDeviceByFacingMode(availableDevices, preference.facingMode)
                  ELSE byId
  IN IF byFacing = NoDevice /\ Len(availableDevices) > 0
     THEN availableDevices[1] ELSE byFacing

DeviceFacings == FacingModes \cup {"undefined"}

\* The cameras with ids in S, in the order of AllIds, with the facing modes
\* facing[id].
Enumerated(S, facing) ==
  LET at == {i \in 1..MaxDevices : AllIds[i] \in S}
      nth(k) == CHOOSE i \in at : Cardinality({j \in at : j <= i}) = k
  IN [k \in 1..Cardinality(at) |->
        CameraDevice(AllIds[nth(k)], facing[AllIds[nth(k)]])]

\* Before permission is granted enumerateDevices gives empty ids and labels.
Unlabelled == {[i \in 1..n |-> CameraDevice("", "undefined")] : n \in 1..MaxDevices}

\* What enumerateCameraDevices can resolve to when the labels tell the
\* facing modes `facing`: any of the MaxDevices cameras that are plugged in
\* (ids are only compared, so one order of ids stands for all); or cameras
\* without id and label; the empty list also when enumeration fails.
Enumerable(facing) ==
  {Enumerated(S, facing) : S \in SUBSET DeviceIds} \cup Unlabelled

DeviceLists ==
  UNION {Enumerable(facing) : facing \in [DeviceIds -> DeviceFacings]}

\* What an earlier visit can have left in localStorage: nothing, or the
\* preference for a camera that is not present any more.  (A preference for
\* a camera that is present comes about in the run itself.)
StoredPreferences ==
  {NoPreference} \cup {CameraPreference(StaleId, m) : m \in FacingModes}

\* Every preference that can be stored.
Preferences ==
  {NoPreference} \cup
  {CameraPreference(id, m) : id \in DeviceIds \cup {"", StaleId}, m \in FacingModes}

CamerasRan(op, changed) == [op |-> op, changed |-> changed]

\* The selection in memory.
Selection(c) == <<c.selectedDevice, c.facingMode>>

\* refreshDevices, from the call to `await enumerateCameraDevices()`: called
\* by the mount effect, by the devicechange listener and by the
\* permission-change listener on granted.
refreshDevices ==
  /\ cameras.isMountedRef
  /\ cameras.started < MaxRefreshes
  /\ cameras' = [cameras EXCEPT
                   !.isLoading = TRUE,
                   !.refreshes = @ + 1,
                   !.started = @ + 1,
                   !.last = CamerasRan("refreshDevices", FALSE)]
  /\ UNCHANGED <<cameraPreference, mediaDevices>>

\* refreshDevices after `await enumerateCameraDevices()` settles.
refreshDevicesSettled(availableDevices) ==
  /\ cameras.refreshes > 0
  /\ LET preference == loadCameraPreference
         deviceToSelect == DeviceToSelect(availableDevices, preference)
         selected == IF deviceToSelect # NoDevice
                     THEN <<deviceToSelect,
                            OrElse(deviceToSelect.facingMode, preference.facingMode)>>
                     ELSE Selection(cameras)
     IN cameras' =
          IF ~cameras.isMountedRef
          THEN [cameras EXCEPT !.refreshes = @ - 1]
          ELSE [cameras EXCEPT
                  !.refreshes = @ - 1,
                  !.devices = availableDevices,
                  !.selectedDevice = selected[1],
                  !.facingMode = selected[2],
                  !.isLoading = FALSE,
                  !.last = CamerasRan("refreshDevicesSettled",
                                      selected # Selection(cameras))]
  /\ UNCHANGED <<cameraPreference, mediaDevices>>

\* selectDevice(deviceId).
selectDevice(deviceId) ==
  /\ cameras.isMountedRef
  /\ cameras.selections < MaxSelections
  /\ LET device == findByDeviceId(cameras.devices, deviceId)
         newFacingMode == OrElse(device.facingMode, cameras.facingMode)
     IN IF device # NoDevice
        THEN /\ cameras' = [cameras EXCEPT
                              !.selections = @ + 1,
                              !.selectedDevice = device,
                              !.facingMode = newFacingMode,
                              !.last = CamerasRan("selectDevice",
                                         <<device, newFacingMode>> # Selection(cameras))]
             /\ saveCameraPreference(
                  CameraPreference(device.deviceId, newFacingMode))
        ELSE /\ cameras' = [cameras EXCEPT
                              !.selections = @ + 1,
                              !.last = CamerasRan("selectDevice", FALSE)]
             /\ UNCHANGED cameraPreference
  /\ UNCHANGED mediaDevices

\* toggleCamera().
toggleCamera ==
  /\ cameras.isMountedRef
  /\ cameras.selections < MaxSelections
  /\ LET oppositeDevice == findOppositeCamera(cameras.devices, cameras.facingMode)
         flipped == Opposite(cameras.facingMode)
         otherDevice == Find(cameras.devices,
                             {i \in 1..Len(cameras.devices) :
                                cameras.devices[i].deviceId # IdOf(cameras.selectedDevice)})
         newDevice == IF oppositeDevice # NoDevice THEN oppositeDevice
                      ELSE IF otherDevice # NoDevice THEN otherDevice
                      ELSE cameras.selectedDevice
         newFacingMode == IF oppositeDevice # NoDevice
                          THEN OrElse(oppositeDevice.facingMode, flipped)
                          ELSE flipped
     IN /\ cameras' = [cameras EXCEPT
                         !.selections = @ + 1,
                         !.selectedDevice = newDevice,
                         !.facingMode = newFacingMode,
                         !.last = CamerasRan("toggleCamera",
                                    <<newDevice, newFacingMode>> # Selection(cameras))]
        /\ saveCameraPreference(
             CameraPreference(OrElse(IdOf(newDevice), ""), newFacingMode))
  /\ UNCHANGED mediaDevices

\* setFacingMode(mode).
setFacingMode(mode) ==
  /\ cameras.isMountedRef
  /\ cameras.selections < MaxSelections
  /\ LET device == findDeviceByFacingMode(cameras.devices, mode)
         newDevice == IF device # NoDevice THEN device ELSE cameras.selectedDevice
     IN /\ cameras' = [cameras EXCEPT
                         !.selections = @ + 1,
                         !.selectedDevice = newDevice,
                         !.facingMode = mode,
                         !.last = CamerasRan("setFacingMode",
                                    <<newDevice, mode>> # Selection(cameras))]
        /\ saveCameraPreference(
             CameraPreference(OrElse(IdOf(newDevice), ""), mode))
  /\ UNCHANGED mediaDevices

\* The cleanup of the hook's effect at unmount.
camerasCleanup ==
  /\ cameras.isMountedRef
  /\ cameras' = [cameras EXCEPT
                   !.isMountedRef = FALSE,
                   !.last = CamerasRan("cleanup", FALSE)]
  /\ UNCHANGED <<cameraPreference, mediaDevices>>

NextDevices ==
  \/ refreshDevices
       /\ UNCHANGED notDevices
  \/ \E availableDevices \in Enumerable(mediaDevices) :
          refreshDevicesSettled(availableDevices)
       /\ UNCHANGED notDevices
  \/ \E deviceId \in DeviceIds : selectDevice(deviceId)
       /\ UNCHANGED notDevices
  \/ toggleCamera
       /\ UNCHANGED notDevices
  \/ \E mode \in FacingModes : setFacingMode(mode)
       /\ UNCHANGED notDevices
  \/ camerasCleanup
       /\ UNCHANGED notDevices

\* A visit that may find a preference stored by an earlier one.
InitDevices ==
  /\ Mounted
  /\ cameraPreference \in StoredPreferences
  /\ mediaDevices \in [DeviceIds -> DeviceFacings]
  /\ history = InitialHistory(<<>>)

SpecDevices == InitDevices /\ [][NextDevices]_vars

DevicesTypeOK ==
  /\ cameras.devices \in DeviceLists
  /\ cameras.facingMode \in FacingModes
  /\ cameras.refreshes \in 0..MaxRefreshes
  /\ cameras.selections \in 0..MaxSelections
  /\ cameraPreference \in Preferences

----------------------------------------------------------------------------
\* The engine's two callbacks.  Beside handleDecode, startScanner and
\* switchCamera hand the engine a callback for the frames in which no code
\* was found; the engine calls it while it is scanning.

\* A frame callback that reports the failure as an error of the session.
onScanFailureReported ==
  /\ scannerRef # "null"
  /\ isScanning
  /\ error' = SetState(error, StartFailed)
  /\ status' = SetState(status, "error")
  /\ Ran("onScanFailure", "void", FALSE)
  /\ UNCHANGED <<lastResult, scannerRef, isMountedRef, isScanning, pending,
                 onScanCount, stopWhileInit, calls, decodes>>

\* The frame-error callback: its body is empty.
onScanFailure ==
  /\ scannerRef # "null"
  /\ isScanning
  /\ Ran("onScanFailure", "void", FALSE)
  /\ UNCHANGED <<status, lastResult, error, scannerRef, isMountedRef,
                 isScanning, pending, onScanCount, stopWhileInit, calls,
                 decodes>>

NextFrames ==
  \/ Next
  \/ onScanFailure
       /\ UNCHANGED notScanner

SpecFrames == Init /\ [][NextFrames]_vars

----------------------------------------------------------------------------
\* The results of the controller with their timestamps.  handleDecode reads
\* Date.now() when the engine calls it; the result is surfaced later, when
\* the stop that stopAndNotify awaits has settled.

\* Date.now() at a decode callback: the clock ticks between two callbacks.
Now == decodes + 1

\* The result handleDecode builds, held by its stopAndNotify closure.
QRScanResult(text, timestamp) == [text |-> text, timestamp |-> timestamp]

\* The stamps once a start of the engine has settled: when it resolved a
\* new session begins, with nothing surfaced yet.
SessionStamps(started) ==
  IF started THEN [stamps EXCEPT !.surfaced = <<>>] ELSE stamps

\* handleDecode, with the result it builds.
handleDecodeResult(text) ==
  /\ handleDecode(text)
  /\ stamps' = [stamps EXCEPT !.inflight = @ \cup {QRScanResult(text, Now)}]

\* stopAndNotify after its await, with the result its closure holds:
\* setLastResult(result) and onScan?.(result).
stopAndNotifyResult(ok) ==
  /\ stopAndNotify(ok)
  /\ \E result \in stamps.inflight :
       /\ \E r \in PendingBy("handleDecode") :
            r.text = result.text /\ pending' = Remove(r)
       /\ stamps' = [inflight |-> stamps.inflight \ {result},
                     surfaced |-> Append(stamps.surfaced, result.timestamp)]

NextResults ==
  \/ \E cam \in FacingModes, ctorOk \in BOOLEAN : startScanner(cam, ctorOk)
       /\ UNCHANGED <<notSession, stamps>>
  \/ \E ok \in BOOLEAN : startScannerSettled(ok)
       /\ stamps' = SessionStamps(ok)
       /\ UNCHANGED notSession
  \/ stopScanner
       /\ UNCHANGED <<notSession, stamps>>
  \/ \E ok \in BOOLEAN : stopScannerSettled(ok)
       /\ UNCHANGED <<notSession, stamps>>
  \/ \E options \in FacingModes, ctorOk \in BOOLEAN : switchCamera(options, ctorOk)
       /\ UNCHANGED <<notSession, stamps>>
  \/ \E ok \in BOOLEAN : switchCameraStopped(ok)
       /\ UNCHANGED <<notSession, stamps>>
  \/ \E ok \in BOOLEAN : switchCameraSettled(ok)
       /\ stamps' = SessionStamps(ok)
       /\ UNCHANGED notSession
  \/ \E text \in Texts : handleDecodeResult(text)
       /\ UNCHANGED notSession
  \/ \E ok \in BOOLEAN : stopAndNotifyResult(ok)
       /\ UNCHANGED notSession
  \/ clearResult
       /\ UNCHANGED <<notSession, stamps>>
  \/ cleanup
       /\ UNCHANGED <<notSession, stamps>>
  \/ \E ok \in BOOLEAN : cleanupSettled(ok)
       /\ UNCHANGED <<notSession, stamps>>

SpecResults == Init /\ [][NextResults]_vars

StampsTypeOK ==
  /\ stamps.inflight \subseteq
       {QRScanResult(text, t) : text \in Texts, t \in 1..MaxDecodes}
  /\ stamps.surfaced \in Seq(1..MaxDecodes)
  /\ Len(stamps.surfaced) <= MaxDecodes

----------------------------------------------------------------------------
\* The scan history: one useScanHistory instance and the list it keeps in
\* localStorage.  Each callback is one action: the state updater it hands to
\* setEntries and the saveHistory call inside it run before anything else
\* reads the history.  setItem is taken to store what it is given.

\* Everything that is not state of the history hook.
notHistory == <<scannerVars, permission, app, cameras, cameraPreference,
                mediaDevices, stamps, cameraError, historyModal, qrScanner, pause>>

\* The history an earlier visit left with k entries, the newest first.
Earlier(k) == [i \in 1..k |-> k + 1 - i]

\* What localStorage may hold when the hook mounts.
StoredHistories == {Earlier(k) : k \in 0..MAX_HISTORY_ENTRIES}

\* The ids removeScan may be called with: every id generated in a run and
\* one that no entry has.
HistoryIds == 1..(MAX_HISTORY_ENTRIES + MaxScans + 1)

\* Array.prototype.slice(0, n) keeping the wrong end.
sliceEnd(list, n) ==
  SubSeq(list, IF Len(list) < n THEN 1 ELSE Len(list) - n + 1, Len(list))

\* Array.prototype.slice(0, n).
slice(list, n) == SubSeq(list, 1, IF Len(list) < n THEN Len(list) ELSE n)

\* entries.filter((entry) => entry.id !== id)
filter(list, id) == SelectSeq(list, LAMBDA entry : entry # id)

\* The effect at mount: setEntries(loadHistory().entries).
loadHistory ==
  /\ history.isLoading
  /\ history' = [history EXCEPT !.entries = history.stored,
                                !.isLoading = FALSE,
                                !.last = [op |-> "loadHistory", dropped |-> 0]]

\* addScan: the new entry goes first, the list is cut to the capacity and
\* saved.
addScan ==
  /\ ~history.isLoading
  /\ history.scans < MaxScans
  /\ LET newEntry == history.generated + 1
         updatedEntries == <<newEntry>> \o history.entries
         kept == IF Len(updatedEntries) > MAX_HISTORY_ENTRIES
                   THEN slice(updatedEntries, MAX_HISTORY_ENTRIES)
                   ELSE updatedEntries
     IN  history' = [history EXCEPT
           !.entries = kept,
           !.stored = kept,
           !.generated = newEntry,
           !.scans = @ + 1,
           !.last = [op |-> "addScan",
                     dropped |-> Len(updatedEntries) - Len(kept)]]

\* removeScan(id): the entries of another id are kept and saved.
removeScan(id) ==
  /\ ~history.isLoading
  /\ history.removals < MaxRemovals
  /\ LET updatedEntries == filter(history.entries, id)
     IN  history' = [history EXCEPT
           !.entries = updatedEntries,
           !.stored = updatedEntries,
           !.removals = @ + 1,
           !.last = [op |-> "removeScan",
                     dropped |-> Len(history.entries) - Len(updatedEntries)]]

\* clearHistory: setEntries([]) and an empty history saved.
clearHistory ==
  /\ ~history.isLoading
  /\ history' = [history EXCEPT
       !.entries = <<>>,
       !.stored = <<>>,
       !.last = [op |-> "clearHistory", dropped |-> Len(history.entries)]]

NextHistory ==
  \/ loadHistory
       /\ UNCHANGED notHistory
  \/ addScan
       /\ UNCHANGED notHistory
  \/ \E id \in HistoryIds : removeScan(id)
       /\ UNCHANGED notHistory
  \/ clearHistory
       /\ UNCHANGED notHistory

\* A visit that may find the history of an earlier one.
InitHistory ==
  /\ Mounted
  /\ cameraPreference = NoPreference
  /\ mediaDevices = [id \in DeviceIds |-> "undefined"]
  /\ \E stored \in StoredHistories : history = InitialHistory(stored)

SpecHistory == InitHistory /\ [][NextHistory]_vars

HistoryTypeOK ==
  /\ history.entries \in Seq(HistoryIds)
  /\ history.stored \in Seq(HistoryIds)
  /\ history.scans \in 0..MaxScans
  /\ history.removals \in 0..MaxRemovals

----------------------------------------------------------------------------
\* The consumers of the scan history.  App calls useScanHistory() for
\* addScan and HistoryModal calls it for entries, removeScan and
\* clearHistory: two instances of the hook, each with its own entries state,
\* over the one list in localStorage.  `history` is the instance of App.

\* Everything but the two instances and localStorage.
notHistories == <<scannerVars, permission, app, cameras, cameraPreference,
                  mediaDevices, stamps, cameraError, qrScanner, pause>>

\* The ids of a list of entries.
Ids(list) == {list[i] : i \in 1..Len(list)}

\* The mount effect of HistoryModal's instance.
modalLoadHistory ==
  /\ historyModal.isLoading
  /\ historyModal' = [historyModal EXCEPT !.entries = history.stored,
                                          !.isLoading = FALSE]
  /\ history' = [history EXCEPT !.last = [op |-> "modalLoadHistory", dropped |-> 0]]

\* handleRemove of HistoryModal: removeScan(id) of its instance, which
\* filters its own entries and saves them.
handleRemove(id) ==
  /\ ~historyModal.isLoading
  /\ history.removals < MaxRemovals
  /\ LET updatedEntries == filter(historyModal.entries, id)
     IN  /\ historyModal' = [historyModal EXCEPT
               !.entries = updatedEntries,
               !.removed = @ \cup (Ids(historyModal.entries) \cap {id})]
         /\ history' = [history EXCEPT
               !.stored = updatedEntries,
               !.removals = @ + 1,
               !.last = [op |-> "handleRemove",
                         dropped |-> Len(historyModal.entries) - Len(updatedEntries)]]

\* handleClearAll of HistoryModal: clearHistory() of its instance.
handleClearAll ==
  /\ ~historyModal.isLoading
  /\ historyModal' = [historyModal EXCEPT
       !.entries = <<>>,
       !.removed = @ \cup Ids(historyModal.entries)]
  /\ history' = [history EXCEPT
       !.stored = <<>>,
       !.last = [op |-> "handleClearAll", dropped |-> Len(historyModal.entries)]]

NextConsumers ==
  \/ loadHistory
       /\ UNCHANGED notHistory
  \/ addScan
       /\ UNCHANGED notHistory
  \/ modalLoadHistory
       /\ UNCHANGED notHistories
  \/ \E id \in HistoryIds : handleRemove(id)
       /\ UNCHANGED notHistories
  \/ handleClearAll
       /\ UNCHANGED notHistories

SpecConsumers == InitHistory /\ [][NextConsumers]_vars

ConsumersTypeOK ==
  /\ historyModal.entries \in Seq(HistoryIds)
  /\ historyModal.removed \subseteq HistoryIds

----------------------------------------------------------------------------
\* QRScanner over the controller: the camera of its config prop, and the
\* effect that switches the camera when the prop changes.

\* Everything but the controller and QRScanner.
notConfig == <<permission, app, cameras, cameraPreference, mediaDevices,
               stamps, history, cameraError, historyModal, pause>>

\* startScanner() of the current render: mergedConfig is the config prop.
startWithConfig(ctorOk) ==
  /\ startScanner(qrScanner.config, ctorOk)
  /\ UNCHANGED qrScanner

\* A start of the engine settles; when it resolves the engine holds the
\* camera it was started with.
engineStartSettled(ok) ==
  \E r \in Pending("start") :
    /\ StartSettled(r, ok)
    /\ qrScanner' = [qrScanner EXCEPT !.engine = IF ok THEN r.cam ELSE @]

\* The hook's isScanning, which the effect reads.
hookIsScanning == status = "active"

\* App hands QRScanner another camera (handleSwitchCamera -> toggleCamera ->
\* new facingMode / deviceId in the config prop), and the effect on the
\* config runs: it calls switchCamera when the config differs from
\* previousConfigRef and the hook is scanning, and stores the config in
\* previousConfigRef in every case.
configChanged(facingMode) ==
  /\ isMountedRef
  /\ facingMode # qrScanner.config
  /\ LET cameraConfigChanged == facingMode # qrScanner.previousConfigRef
     IN  IF cameraConfigChanged /\ hookIsScanning
         THEN \E ctorOk \in BOOLEAN : switchCamera(facingMode, ctorOk)
         ELSE UNCHANGED scannerVars
  /\ qrScanner' = [qrScanner EXCEPT !.config = facingMode,
                                    !.previousConfigRef = facingMode]

NextConfig ==
  \/ \E ctorOk \in BOOLEAN : startWithConfig(ctorOk)
       /\ UNCHANGED notConfig
  \/ \E ok \in BOOLEAN : engineStartSettled(ok)
       /\ UNCHANGED notConfig
  \/ \E facingMode \in FacingModes : configChanged(facingMode)
       /\ UNCHANGED notConfig
  \/ \E ok \in BOOLEAN : switchCameraStopped(ok)
       /\ UNCHANGED notScanner
  \/ stopScanner
       /\ UNCHANGED notScanner
  \/ \E ok \in BOOLEAN : stopScannerSettled(ok)
       /\ UNCHANGED notScanner

SpecConfig == Init /\ [][NextConfig]_vars

ConfigTypeOK ==
  /\ qrScanner.config \in FacingModes
  /\ qrScanner.previousConfigRef \in FacingModes
  /\ qrScanner.engine \in FacingModes \cup {"none"}

----------------------------------------------------------------------------
\* The pause-on-success controller: the useQRScanner of cameraService.ts,
\* which keeps the engine running after a decode and drops further decode
\* callbacks while isPausedRef is set.  It has the state of the controller
\* above and the statuses scanning and paused; its cleanup and clearResult
\* are the same code, so they are the same actions.

\* Everything but the controller and its pause flag.
notPausing == <<permission, app, cameras, cameraPreference, mediaDevices,
                stamps, history, cameraError, historyModal, qrScanner>>

\* A decode callback that is taken whatever the flag says.
NeverPaused == FALSE

\* The guard of handleDecode: `if (isPausedRef.current) return`.
IsPaused == pause.isPausedRef

\* The pause flag after `isPausedRef.current = false` inside
\* `if (isMountedRef.current)`.
Unpaused == IF isMountedRef THEN [pause EXCEPT !.isPausedRef = FALSE] ELSE pause

\* handleDecode of the pause-on-success controller.
handleDecodePausing(text) ==
  /\ scannerRef # "null"
  /\ isScanning
  /\ decodes < MaxDecodes
  /\ decodes' = decodes + 1
  /\ IF IsPaused
     THEN /\ pause' = [pause EXCEPT !.dropped = TRUE]
          /\ UNCHANGED <<lastResult, status, onScanCount>>
     ELSE /\ pause' = [isPausedRef |-> TRUE, accepted |-> TRUE, dropped |-> FALSE]
          /\ lastResult' = SetState(lastResult, text)
          /\ status' = SetState(status, "paused")
          /\ onScanCount' = [onScanCount EXCEPT ![text] = @ + 1]
  /\ Ran("handleDecode", "void", FALSE)
  /\ UNCHANGED <<error, scannerRef, isMountedRef, isScanning, pending, calls,
                 stopWhileInit>>

\* startScanner, from the call to `await scanner.start(...)` or to an early
\* return.
startScannerPausing(cam, ctorOk) ==
  /\ isMountedRef
  /\ calls < MaxCalls
  /\ calls' = calls + 1
  /\ IF status = "scanning" \/ status = "initializing"
     THEN /\ Ran("startScanner", "false", FALSE)
          /\ UNCHANGED <<status, error, scannerRef, pending>>
     ELSE IF scannerRef = "null" /\ ~ctorOk
     THEN /\ status' = "error"
          /\ error' = StartFailed
          /\ Ran("startScanner", "false", TRUE)
          /\ UNCHANGED <<scannerRef, pending>>
     ELSE /\ status' = "initializing"
          /\ error' = "null"
          /\ scannerRef' = "Html5Qrcode"
          /\ pending' = Add(StartCall("startScanner", cam))
          /\ Ran("startScanner", "pending", FALSE)
  /\ UNCHANGED <<lastResult, isMountedRef, isScanning, onScanCount, decodes,
                 pause, stopWhileInit>>

\* startScanner or switchCamera after `await scanner.start(...)` settles.
startSettledPausing(ok) ==
  \E r \in Pending("start") :
    /\ pending' = Remove(r)
    /\ IF ok
       THEN /\ isScanning' = TRUE
            /\ status' = SetState(status, "scanning")
            /\ pause' = [Unpaused EXCEPT !.accepted = FALSE]
            /\ Ran(r.by, "true", FALSE)
            /\ UNCHANGED error
       ELSE /\ error' = SetState(error, StartFailed)
            /\ status' = SetState(status, "error")
            /\ Ran(r.by, "false", TRUE)
            /\ UNCHANGED <<isScanning, pause>>
    /\ UNCHANGED <<lastResult, scannerRef, isMountedRef, onScanCount, calls,
                   decodes, stopWhileInit>>

\* stopScanner, from the call to `await scanner.stop()` or to its end.
stopScannerPausing ==
  /\ isMountedRef
  /\ calls < MaxCalls
  /\ calls' = calls + 1
  /\ IF scannerRef = "null"
     THEN /\ Ran("stopScanner", "void", FALSE)
          /\ UNCHANGED <<status, pending, pause>>
     ELSE IF isScanning
     THEN /\ pending' = Add(StopCall("stopScanner", "none", NoResult, TRUE))
          /\ Ran("stopScanner", "pending", FALSE)
          /\ UNCHANGED <<status, pause>>
     ELSE /\ status' = "stopped"
          /\ pause' = Unpaused
          /\ Ran("stopScanner", "void", FALSE)
          /\ UNCHANGED pending
  /\ UNCHANGED <<lastResult, error, scannerRef, isMountedRef, isScanning,
                 onScanCount, decodes, stopWhileInit>>

\* stopScanner after `await scanner.stop()` settles.
stopSettledPausing(ok) ==
  \E r \in Pending("stop") :
    /\ r.by = "stopScanner"
    /\ pending' = Remove(r)
    /\ IF ok
       THEN /\ isScanning' = FALSE
            /\ status' = SetState(status, "stopped")
            /\ pause' = Unpaused
            /\ Ran("stopScanner", "void", FALSE)
            /\ UNCHANGED error
       ELSE /\ error' = SetState(error, "SCANNER_STOP_FAILED")
            /\ Ran("stopScanner", "void", TRUE)
            /\ UNCHANGED <<status, isScanning, pause>>
    /\ UNCHANGED <<lastResult, scannerRef, isMountedRef, onScanCount, calls,
                   decodes, stopWhileInit>>

\* The guard of pauseScanner.
Pausable == status = "scanning"

\* pauseScanner: the engine keeps running.
pauseScanner ==
  /\ isMountedRef
  /\ IF Pausable
     THEN /\ pause' = [pause EXCEPT !.isPausedRef = TRUE]
          /\ status' = "paused"
     ELSE UNCHANGED <<pause, status>>
  /\ Ran("pauseScanner", "void", FALSE)
  /\ UNCHANGED <<lastResult, error, scannerRef, isMountedRef, isScanning,
                 pending, onScanCount, calls, decodes, stopWhileInit>>

\* resumeScanner.
resumeScanner ==
  /\ isMountedRef
  /\ IF status = "paused"
     THEN /\ pause' = [pause EXCEPT !.isPausedRef = FALSE, !.accepted = FALSE]
          /\ status' = "scanning"
     ELSE UNCHANGED <<pause, status>>
  /\ Ran("resumeScanner", "void", FALSE)
  /\ UNCHANGED <<lastResult, error, scannerRef, isMountedRef, isScanning,
                 pending, onScanCount, calls, decodes, stopWhileInit>>

\* switchCamera up to its start is the code of the controller above, and the
\* flag is reset only after the new start; cleanup and clearResult leave
\* the flag alone.
NextPausing ==
  \/ \E text \in Texts : handleDecodePausing(text)
       /\ UNCHANGED notPausing
  \/ \E cam \in FacingModes, ctorOk \in BOOLEAN : startScannerPausing(cam, ctorOk)
       /\ UNCHANGED notPausing
  \/ \E ok \in BOOLEAN : startSettledPausing(ok)
       /\ UNCHANGED notPausing
  \/ stopScannerPausing
       /\ UNCHANGED notPausing
  \/ \E ok \in BOOLEAN : stopSettledPausing(ok)
       /\ UNCHANGED notPausing
  \/ pauseScanner
       /\ UNCHANGED notPausing
  \/ resumeScanner
       /\ UNCHANGED notPausing
  \/ \E options \in FacingModes, ctorOk \in BOOLEAN :
       switchCamera(options, ctorOk)
       /\ UNCHANGED notScanner
  \/ \E ok \in BOOLEAN : switchCameraStopped(ok)
       /\ UNCHANGED notScanner
  \/ clearResult
       /\ UNCHANGED notScanner
  \/ cleanup
       /\ UNCHANGED notScanner
  \/ \E ok \in BOOLEAN : cleanupSettled(ok)
       /\ UNCHANGED notScanner

SpecPausing == Init /\ [][NextPausing]_vars

PausingTypeOK ==
  /\ status \in {"idle", "initializing", "scanning", "paused", "stopped", "error"}
  /\ pause.isPausedRef \in BOOLEAN
  /\ pause.accepted \in BOOLEAN
  /\ pause.dropped \in BOOLEAN
  /\ lastResult \in Texts \cup {NoResult}

\* A step of the named operation of the pause-on-success controller.
PausingStep(op) == last'.op = op /\ (op = "handleDecode" => decodes' = decodes + 1)

\* C35: once a decode has been accepted, no further decode callback changes
\* lastResult or invokes onScan until resumeScanner has resumed or a start
\* of the engine, by startScanner or switchCamera, has succeeded; a
\* pauseScanner from a status other than scanning and a resumeScanner from a
\* status other than paused change neither the status nor the pause flag.
C35_PauseOnSuccess ==
  [][ /\ (PausingStep("handleDecode") /\ pause.accepted)
           => UNCHANGED <<lastResult, onScanCount, status>>
      /\ (PausingStep("pauseScanner") /\ status # "scanning")
           => UNCHANGED <<status, pause>>
      /\ (PausingStep("resumeScanner") /\ status # "paused")
           => UNCHANGED <<status, pause>>
      /\ (PausingStep("handleDecode") /\ ~pause.isPausedRef)
           => pause'.isPausedRef /\ (isMountedRef => status' = "paused")
    ]_vars

\* A decode was accepted and paused the session, and the next decode
\* callback was dropped: the result is the first one, notified once.
C35_Witness ==
  /\ pause.accepted
  /\ pause.dropped
  /\ last.op = "handleDecode"
  /\ status = "paused"
  /\ \E text \in Texts : lastResult = text /\ onScanCount[text] = 1

----------------------------------------------------------------------------
\* The camera errors of cameraService: what requestCameraPermission makes of
\* the value its getUserMedia call rejects with.

\* Everything but the last camera error.
notCameraError == <<scannerVars, permission, app, cameras, cameraPreference,
                    mediaDevices, stamps, history, historyModal, qrScanner, pause>>

\* CameraErrorType (types/scanner.ts).
CameraErrorTypes ==
  {"NOT_SUPPORTED", "NOT_SECURE_CONTEXT", "PERMISSION_DENIED",
   "PERMISSION_DISMISSED", "NO_DEVICES_FOUND", "DEVICE_IN_USE",
   "OVERCONSTRAINED", "UNKNOWN"}

\* The errorMap of mapDOMExceptionToError, by error.name.
errorMap ==
  [NotAllowedError |->
     [type |-> "PERMISSION_DENIED",
      message |-> "Camera access was denied. Please allow camera permissions in your browser settings."],
   NotFoundError |->
     [type |-> "NO_DEVICES_FOUND",
      message |-> "No camera devices were found on this device."],
   NotReadableError |->
     [type |-> "DEVICE_IN_USE",
      message |-> "The camera is already in use by another application."],
   OverconstrainedError |->
     [type |-> "OVERCONSTRAINED",
      message |-> "The requested camera configuration is not supported."],
   AbortError |->
     [type |-> "PERMISSION_DISMISSED",
      message |-> "Camera access request was dismissed."],
   SecurityError |->
     [type |-> "NOT_SECURE_CONTEXT",
      message |-> "Camera access requires a secure context (HTTPS)."]]

\* What a catch block may receive.  class is what instanceof tells of the
\* value: a DOMException, another Error, or a value that is no Error (an
\* OverconstrainedError where that interface does not inherit from
\* DOMException, or any other object thrown).  name and message are its
\* properties of those names.
Thrown ==
  [class : {"DOMException", "Error", "object"},
   name : DOMAIN errorMap \cup {"TypeError", "NotSupportedError"},
   message : {"", "Invalid constraint"}]

\* The originalError of a result that has no such property.
NoOriginalError == [class |-> "undefined", name |-> "", message |-> ""]

\* String(error) of a value that is no Error.
String(err) == "[object " \o err.name \o "]"

\* mapDOMExceptionToError
mapDOMExceptionToError(err) ==
  IF err.name \in DOMAIN errorMap
    THEN [type |-> errorMap[err.name].type,
          message |-> errorMap[err.name].message,
          originalError |-> err]
    ELSE [type |-> "UNKNOWN",
          message |-> IF err.message # "" THEN err.message
                      ELSE "An unknown camera error occurred.",
          originalError |-> err]

\* createCameraError
createCameraError(err) ==
  IF err.class = "DOMException"
    THEN mapDOMExceptionToError(err)
    ELSE IF err.class = "Error"
      THEN [type |-> "UNKNOWN", message |-> err.message,
            originalError |-> err]
      ELSE [type |-> "UNKNOWN", message |-> String(err),
            originalError |-> NoOriginalError]

\* requestCameraPermission when getUserMedia rejects with error: the catch
\* block returns {stream: null, error: createCameraError(error)}.
requestCameraPermissionFails(err) ==
  /\ cameraError.failures < MaxFailures
  /\ cameraError' = [thrown |-> err,
                     error |-> createCameraError(err),
                     failures |-> cameraError.failures + 1]

NextErrors ==
  \E err \in Thrown : requestCameraPermissionFails(err)
                          /\ UNCHANGED notCameraError

SpecErrors == Init /\ [][NextErrors]_vars

ErrorsTypeOK ==
  /\ cameraError.failures \in 0..MaxFailures
  /\ cameraError.failures > 0 =>
       /\ cameraError.thrown \in Thrown
       /\ cameraError.error.type \in CameraErrorTypes

----------------------------------------------------------------------------
\* A step that is the call of hook function op (not a later segment of it).
IsCall(op) == last'.op = op /\ calls' = calls + 1

\* A step in which engine.start is invoked.
StartInvoked == StartsInFlight' > StartsInFlight

\* C1: a startScanner call made while status is initializing or active
\* returns false, invokes no engine method and leaves status, error and
\* lastResult unchanged.
C1_StartRejectedWhileBusy ==
  [][(status \in {"initializing", "active"} /\ IsCall("startScanner"))
       => /\ last'.ret = "false"
          /\ ~StartInvoked
          /\ UNCHANGED <<status, error, lastResult, pending, scannerRef>>]_vars

\* A startScanner call has just been rejected while a start is in flight.
C1_Witness ==
  /\ last = [op |-> "startScanner", ret |-> "false", caught |-> FALSE]
  /\ status = "initializing"
  /\ StartsInFlight = 1

\* C2: between one successful start and the next, onScan is invoked at most
\* once for a decoded text, and exactly once when stopAndNotify has run for it.
C2_OnScanOncePerPresentation ==
  \A t \in Texts :
    /\ onScanCount[t] <= 1
    /\ (last.op = "stopAndNotify" /\ isMountedRef /\ lastResult = t)
         => onScanCount[t] = 1

\* C3: while the component is mounted, status active implies the engine is
\* scanning, and status idle, stopped or error implies it is not.
C3_StatusMatchesEngine ==
  isMountedRef =>
    /\ status = "active" => isScanning
    /\ status \in {"idle", "stopped", "error"} => ~isScanning

\* C4: when switchCamera, called while the engine was scanning, goes on from
\* its awaited stop to invoke engine.start, the engine is no longer scanning.
C4_OldStreamReleasedBeforeStart ==
  [][(NumPending(PendingBy("switchCamera") \cap Pending("stop"))' <
        NumPending(PendingBy("switchCamera") \cap Pending("stop"))
      /\ StartInvoked)
       => ~isScanning']_vars

\* C5: at most one engine.start invoked by switchCamera is in flight.
C5_SwitchesSerialized ==
  NumPending(PendingBy("switchCamera") \cap Pending("start")) <= 1

\* C6: engine.start is invoked only when no other engine.start or
\* engine.stop is unsettled.
C6_StartOnlyWhenSettled ==
  [][StartInvoked => BagCardinality(pending') = 1]_vars

\* C7: after a stopScanner issued while a start was in flight, once every
\* engine call has settled the engine is not scanning and status is not active.
C7_StopWaitsForStart ==
  (stopWhileInit /\ isMountedRef /\ pending = EmptyBag)
    => (~isScanning /\ status # "active")

\* C8: after unmount, once every engine call has settled, the engine is not
\* scanning.
C8_UnmountReleasesEngine ==
  (~isMountedRef /\ pending = EmptyBag) => ~isScanning

\* C9: when engine.stop rejects inside stopScanner, SCANNER_STOP_FAILED is
\* recorded, the status guard of startScanner lets the next call pass, and
\* the failed engine instance is discarded.
C9_StopFailureDoesNotBlockStart ==
  (last.op = "stopScanner" /\ last.caught /\ isMountedRef)
    => /\ error = "SCANNER_STOP_FAILED"
       /\ ~StartRejected
       /\ scannerRef = "null"

\* C10: a decode callback delivered while the session does not accept
\* results changes neither lastResult nor status and invokes no onScan.
C10_StaleDecodeDiscarded ==
  [][\A r \in PendingBy("handleDecode") :
       (~r.accepting /\ last'.op = "stopAndNotify" /\ pending' = Remove(r))
         => UNCHANGED <<lastResult, status, onScanCount>>]_vars

\* A step in which the engine.start awaited by startScanner settles.
StartScannerSettles ==
  \E r \in Pending("start") : r.by = "startScanner" /\ pending' = Remove(r)

\* C11: an accepted startScanner sets status initializing and clears error
\* (or, when the engine cannot be constructed, returns false with status
\* error and SCANNER_START_FAILED); when its engine.start resolves the call
\* returns true with status active, and when it rejects the call returns
\* false with status error and error SCANNER_START_FAILED.
C11_StartOutcomes ==
  [][/\ (IsCall("startScanner") /\ ~StartRejected)
          => \/ /\ StartInvoked
                /\ status' = "initializing"
                /\ error' = "null"
             \/ /\ ~StartInvoked
                /\ last'.ret = "false"
                /\ status' = "error"
                /\ error' = "SCANNER_START_FAILED"
     /\ (StartScannerSettles /\ isMountedRef)
          => \/ /\ last'.ret = "true"
                /\ isScanning'
                /\ status' = "active"
             \/ /\ last'.ret = "false"
                /\ last'.caught
                /\ status' = "error"
                /\ error' = "SCANNER_START_FAILED"]_vars

\* The engine.start of an accepted startScanner has rejected.
C11_Witness ==
  /\ last = [op |-> "startScanner", ret |-> "false", caught |-> TRUE]
  /\ scannerRef = "Html5Qrcode"
  /\ isMountedRef
  /\ status = "error"
  /\ error = "SCANNER_START_FAILED"

\* C12: stopScanner called when no engine instance exists changes nothing;
\* called when the engine instance reports not scanning (as on the second of
\* two calls in a row) it invokes no engine method, records no error and
\* leaves status stopped.
C12_StopIdempotent ==
  [][IsCall("stopScanner")
       => /\ scannerRef = "null"
               => UNCHANGED <<status, error, lastResult, scannerRef,
                              isScanning, pending>>
          /\ (scannerRef # "null" /\ ~isScanning)
               => /\ status' = "stopped"
                  /\ UNCHANGED <<error, lastResult, scannerRef, isScanning,
                                 pending>>]_vars

\* stopScanner has returned on an engine that had been started and stopped
\* before, with no error recorded and status stopped.
C12_Witness ==
  /\ last = [op |-> "stopScanner", ret |-> "void", caught |-> FALSE]
  /\ calls = 3
  /\ decodes = 0
  /\ isMountedRef
  /\ ~stopWhileInit
  /\ scannerRef = "Html5Qrcode"
  /\ ~isScanning
  /\ pending = EmptyBag
  /\ status = "stopped"
  /\ error = "null"

\* C20: after a failure caught inside startScanner, stopScanner or
\* switchCamera, status is error and an error value is recorded.
C20_CaughtFailureSetsError ==
  (last.caught /\ last.op \in {"startScanner", "stopScanner", "switchCamera"}
     /\ isMountedRef)
    => (status = "error" /\ error # "null")

\* A step in which the permission-change listener runs with the given state.
ChangeDelivered(state) ==
  /\ permission'.events = permission.events + 1
  /\ permission'.last = PermissionRan("onPermissionChange", state, "void")

\* C14: when a permission-change event delivers granted while an error is
\* recorded, the hook state after the listener has error null, status.state
\* granted and no status.error.
C14_GrantedClearsError ==
  [][(ChangeDelivered("granted") /\ permission.error # "null")
       => /\ permission'.error = "null"
          /\ permission'.status = PermissionStatus("granted", Absent)]_vars

\* C15: a permission-change event delivering denied sets status.state to
\* denied and leaves the recorded error as it was.
C15_DeniedKeepsError ==
  [][ChangeDelivered("denied")
       => /\ permission'.status.state = "denied"
          /\ permission'.error = permission.error]_vars

\* The listener has run with denied after a request was refused: the error
\* of the request is still recorded.
C15_Witness ==
  /\ permission.last = PermissionRan("onPermissionChange", "denied", "void")
  /\ permission.status.state = "denied"
  /\ permission.error = "PERMISSION_DENIED"
  /\ permission.gum > 0

\* C16: a requestPermission call made while another one is in flight
\* returns false and does not invoke getUserMedia.
C16_ConcurrentRequestRejected ==
  [][(permission.requests > 0 /\ permission'.calls = permission.calls + 1)
       => /\ permission'.last.ret = "false"
          /\ permission'.gum = permission.gum]_vars

\* C13: no stream of the permission hook has live tracks while the engine
\* of the scan session holds the camera.
C13_StreamsNeverOverlap ==
  ~(permission.live # {} /\ isScanning)

\* The first index of a set of indices.
First(hits) == CHOOSE i \in hits : \A j \in hits : i <= j

\* A step in which refreshDevices goes on after its await, mounted.
RefreshSettles ==
  cameras.isMountedRef /\ cameras'.refreshes = cameras.refreshes - 1

\* C17: after an enumeration the selected device is the first one whose id
\* is the persisted deviceId; else the first one whose facing mode is the
\* persisted facingMode; else the first one; and when the list is empty the
\* resolution selects nothing.
C17_ResolutionOrder ==
  [][RefreshSettles =>
       LET devs == cameras'.devices
           pref == IF cameraPreference = NoPreference
                   THEN [deviceId |-> "", facingMode |-> "environment"]
                   ELSE cameraPreference
           byId == {i \in 1..Len(devs) : devs[i].deviceId = pref.deviceId}
           byFacing == {i \in 1..Len(devs) : devs[i].facingMode = pref.facingMode}
       IN cameras'.selectedDevice =
            IF byId # {} THEN devs[First(byId)]
            ELSE IF byFacing # {} THEN devs[First(byFacing)]
            ELSE IF Len(devs) > 0 THEN devs[1]
            ELSE cameras.selectedDevice]_vars

\* Devices [a:environment, b:user] have been enumerated with the preference
\* {deviceId c, facingMode environment} stored: a is selected.
C17_Witness ==
  /\ cameras.last.op = "refreshDevicesSettled"
  /\ cameras.devices = <<CameraDevice("a", "environment"), CameraDevice("b", "user")>>
  /\ cameraPreference = CameraPreference("c", "environment")
  /\ cameras.selectedDevice = CameraDevice("a", "environment")

\* A step that is a call of toggleCamera.
ToggleCalled ==
  /\ cameras'.selections = cameras.selections + 1
  /\ cameras'.last.op = "toggleCamera"

\* C18: toggleCamera always leaves facingMode the opposite of what it was;
\* it selects the first device with the opposite facing mode if there is
\* one, else a device whose id differs from the selected one if there is
\* one, else it leaves the selected device as it is.
C18_ToggleCases ==
  [][ToggleCalled =>
       LET devs == cameras.devices
           before == cameras.facingMode
           opposite == IF before = "user" THEN "environment" ELSE "user"
           facing == {i \in 1..Len(devs) : devs[i].facingMode = opposite}
           others == {i \in 1..Len(devs) :
                        \/ cameras.selectedDevice = NoDevice
                        \/ devs[i].deviceId # cameras.selectedDevice.deviceId}
       IN /\ cameras'.facingMode = opposite
          /\ IF facing # {}
             THEN cameras'.selectedDevice = devs[First(facing)]
             ELSE IF others # {}
             THEN \E i \in others : cameras'.selectedDevice = devs[i]
             ELSE cameras'.selectedDevice = cameras.selectedDevice]_vars

\* toggleCamera has run with two cameras whose labels tell no facing mode:
\* the flag is flipped and the other camera selected.
C18_Witness ==
  /\ cameras.last.op = "toggleCamera"
  /\ cameras.devices = <<CameraDevice("a", "undefined"), CameraDevice("b", "undefined")>>
  /\ cameras.selectedDevice = CameraDevice("b", "undefined")
  /\ cameras.facingMode = "user"

\* C19: after a selectDevice, toggleCamera or setFacingMode that changed the
\* selection, the stored preference is the selection in memory, and an
\* enumeration that returns the same device list resolves to the selected
\* device.
C19_PreferenceMatchesSelection ==
  (cameras.last.op \in {"selectDevice", "toggleCamera", "setFacingMode"}
     /\ cameras.last.changed)
    => /\ cameraPreference =
            CameraPreference(
              IF cameras.selectedDevice = NoDevice THEN ""
              ELSE cameras.selectedDevice.deviceId,
              cameras.facingMode)
       /\ DeviceToSelect(cameras.devices, loadCameraPreference)
            = cameras.selectedDevice

\* C21: the promises of startScanner, stopScanner and switchCamera never
\* reject: each is pending at an await or resolved with a boolean or void,
\* and after a failure of the engine's construction, start or stop that the
\* function caught it is resolved with false or void.
C21_PromisesNeverReject ==
  last.op \in {"startScanner", "stopScanner", "switchCamera"}
    => /\ last.ret \in {"true", "false", "void", "pending"}
       /\ last.caught => last.ret \in {"false", "void"}

\* The engine.start that switchCamera awaited on an existing engine has
\* rejected, and the call has returned false.
C21_Witness ==
  /\ last = [op |-> "switchCamera", ret |-> "false", caught |-> TRUE]
  /\ scannerRef = "Html5Qrcode"
  /\ status = "error"

\* C23: clearResult sets lastResult to null and changes neither status nor
\* error nor the engine: its instance, whether it is scanning, and the calls
\* that are unsettled.
C23_ClearResultOnly ==
  [][last'.op = "clearResult"
       => /\ lastResult' = NoResult
          /\ UNCHANGED <<status, error, scannerRef, isScanning, pending>>]_vars

\* clearResult has run in an active session that had surfaced a result
\* earlier: the result is gone, the session still active and scanning.
C23_Witness ==
  /\ last.op = "clearResult"
  /\ decodes = 1
  /\ pending = EmptyBag
  /\ lastResult = NoResult
  /\ status = "active"
  /\ isScanning

StopInvoked == NumPending(Pending("stop"))' > NumPending(Pending("stop"))

\* C27: whenever engine.stop is invoked (by stopScanner, switchCamera, the
\* post-decode stop or the unmount cleanup) an engine instance exists and
\* reports that it is scanning at that moment.
C27_StopOnlyWhileScanning ==
  [][StopInvoked => (scannerRef # "null" /\ isScanning)]_vars

\* switchCamera has invoked engine.stop on the scanning engine of an active
\* session and awaits it.
C27_Witness ==
  /\ last = [op |-> "switchCamera", ret |-> "pending", caught |-> FALSE]
  /\ NumPending(PendingBy("switchCamera") \cap Pending("stop")) = 1
  /\ isScanning
  /\ status = "active"

\* C24: when stopAndNotify ends for a decode that arrived in an active
\* session (the component mounted), the engine is not scanning, lastResult
\* holds the decoded result and status is idle.
C24_OnePostDecodeState ==
  [][(last'.op = "stopAndNotify" /\ isMountedRef)
       => \A r \in PendingBy("handleDecode") :
            (r.accepting /\ pending' = Remove(r))
              => /\ ~isScanning'
                 /\ lastResult' = r.text
                 /\ status' = "idle"]_vars

\* C26: the timestamps of the results surfaced in one session, in the order
\* in which they were surfaced, never decrease.
C26_TimestampsNeverDecrease ==
  \A i, j \in 1..Len(stamps.surfaced) :
    i < j => stamps.surfaced[i] <= stamps.surfaced[j]

\* C22: a frame-error callback changes neither status nor error nor
\* lastResult and invokes neither onScan nor any engine method.
C22_FrameFailureIgnored ==
  [][last'.op = "onScanFailure"
       => UNCHANGED <<status, error, lastResult, onScanCount, pending>>]_vars

\* A frame without a code has been reported while a result of an earlier
\* decode is shown and an error is recorded.
C22_Witness ==
  /\ last.op = "onScanFailure"
  /\ isScanning
  /\ lastResult # NoResult
  /\ error # "null"

\* C28: the auto-start timeout of a mounted QRScanner calls startScanner at
\* most once, and while QRScanner is mounted the call has been made or the
\* timeout that will make it is pending.
C28_AutoStartOnce ==
  /\ app.autoStarts <= 1
  /\ app.scanner = "shown" => (app.timer \/ app.autoStarts = 1)


\* A step of a callback of the history hook.
HistoryOperation == history'.last.op \in {"addScan", "removeScan", "clearHistory"}

\* The entries of a history, the most recently added first.
MostRecentFirst(list) ==
  \A i, j \in 1..Len(list) : i < j => list[i] > list[j]

C30_ClosedErrorMapping ==
  cameraError.failures > 0 =>
    LET thrown == cameraError.thrown
        result == cameraError.error
        named == [NotAllowedError |-> "PERMISSION_DENIED",
                  NotFoundError |-> "NO_DEVICES_FOUND",
                  NotReadableError |-> "DEVICE_IN_USE",
                  OverconstrainedError |-> "OVERCONSTRAINED",
                  AbortError |-> "PERMISSION_DISMISSED",
                  SecurityError |-> "NOT_SECURE_CONTEXT"]
    IN  IF thrown.class = "DOMException" /\ thrown.name \in DOMAIN named
          THEN result.type = named[thrown.name]
          ELSE /\ result.type = "UNKNOWN"
               /\ result.originalError = thrown


\* C36: in every state of the controller, status error comes with a recorded
\* error, so the error overlay has something to show whenever the start
\* control is hidden because of status error.
C36_ErrorStatusHasError == status = "error" => error # "null"

\* A start has just failed: status is error and the error is recorded.
C36_Witness ==
  /\ status = "error"
  /\ error = "SCANNER_START_FAILED"
  /\ last.caught


\* C31: the permission hook holds at most one live stream.  Once every
\* state update has been rendered, no stream but the one the hook holds has
\* a track that is not stopped (a stream replaced by a later request is
\* stopped), and after unmount no stream of the hook has one (the stream held
\* at unmount and a stream obtained after it are stopped).
C31_OneLiveStream ==
  /\ (permission.isMountedRef /\ ~Unrendered)
       => permission.live \subseteq {permission.stream}
  /\ ~permission.isMountedRef => permission.live = {}


\* C32: when a re-enumeration has completed, selectedDevice is null or one
\* of the devices of the list it has just stored.
C32_SelectionIsEnumerated ==
  cameras.last.op = "refreshDevicesSettled"
    => \/ cameras.selectedDevice = NoDevice
       \/ \E i \in 1..Len(cameras.devices) :
            cameras.devices[i] = cameras.selectedDevice


\* C34: once App and HistoryModal have loaded the history, they see the
\* same entries after every operation, and no entry that was removed through
\* HistoryModal is in the persisted history.
C34_ConsumersAgree ==
  (~history.isLoading /\ ~historyModal.isLoading)
    => /\ historyModal.entries = history.entries
       /\ Ids(history.stored) \cap historyModal.removed = {}


\* C33: whenever the session has settled in status active (no engine call
\* is in flight), the camera the engine was last started with is the camera
\* of the current config.
C33_ConfigChangeNotLost ==
  (status = "active" /\ isScanning /\ pending = EmptyBag)
    => qrScanner.engine = qrScanner.config

=============================================================================
